---- MODULE Spec2Model ----
(***************************************************************************)
(* A model of the air-Q integration:                                       *)
(*   - the configuration flow (config_flow.py): async_step_user and        *)
(*     validate_input, split at the two awaits on the device client;       *)
(*   - the sensor platform (sensor.py): SENSOR_TYPES, async_setup_entry    *)
(*     and AirQSensor.native_value.                                        *)
(* The two parts do not interact; each has its own specification (Spec for *)
(* the configuration flow, SensorSpec for the sensor platform).            *)
(***************************************************************************)
EXTENDS Integers, Sequences, FiniteSets, TLC

VARIABLES
    \* ---- configuration flow ----
    entries,          \* the stored config entries, in creation order
    pc,               \* where the current flow is
    user_input,       \* the input of the current / last submission
    result,           \* the FlowResult the last call of async_step_user gave
    unique_id,        \* the flow's unique id (None until async_set_unique_id)
    calls,            \* device calls made by the current call of async_step_user
    config,           \* what hub.airq.get("config") returned in this call
    raised,           \* history: the exception validate_input raised in this call
    derived,          \* history: line 70 has run in this call (title / id derived)
    entries_before,   \* history: the entries when async_step_user was called
    \* ---- sensor platform ----
    data,             \* coordinator.data without "Status": sensor key -> raw value
    status,           \* coordinator.data.get("Status")
    device_id,        \* coordinator.device_id
    entities,         \* the entities handed to async_add_entities, in order
    setup,            \* "pending", "done" or the exception async_setup_entry raised
    op,               \* history: the last operation of the sensor platform
    last_read,        \* the last native_value read: the entity and what it gave
    updates,          \* history: number of coordinator refreshes since setup
    reads             \* history: number of native_value reads since the last refresh

flowVars == <<entries, pc, user_input, result, unique_id, calls, config, raised,
              derived, entries_before>>
sensorVars == <<data, status, device_id, entities, setup, op, last_read, updates,
                reads>>
vars == <<flowVars, sensorVars>>

-----------------------------------------------------------------------------
(* Bounds *)

\* Number of distinct air-Q devices (device ids) on the network.
NumDevices == 2

\* Number of coordinator refreshes after the platform was set up.
MaxUpdates == 1

\* Number of native_value reads between two coordinator refreshes.
MaxReads == 2

AllDeviceIds == <<"a1f0c3", "b2e1d4", "c3d2e5", "d4c3f6">>
DeviceIds == {AllDeviceIds[i] : i \in 1..NumDevices}
DeviceNames == {"kitchen", "office"}

\* Python's None, where the value is otherwise a string.
None == "None"

-----------------------------------------------------------------------------
(* Configuration flow: data *)

\* What the form (STEP_USER_DATA_SCHEMA) can submit.
UserInputs ==
    { [ip_address |-> "192.168.0.10", secret |-> "pw-one"],
      [ip_address |-> "192.168.0.11", secret |-> "pw-two"] }

\* user_input before any submission.
NoInput == [ip_address |-> None, secret |-> None]

\* The exceptions of this module, and what the device client raises when the
\* device cannot be reached.
FlowExceptions == {"CannotConnect", "InvalidAuth"}
ClientExceptions == {"ClientConnectionError", "TimeoutError"}

\* The base class of each exception class that can occur.
Bases ==
    [CannotConnect |-> "HomeAssistantError", InvalidAuth |-> "HomeAssistantError",
     HomeAssistantError |-> "Exception",
     KeyError |-> "LookupError", LookupError |-> "Exception",
     ClientConnectionError |-> "ClientError", ClientError |-> "Exception",
     TimeoutError |-> "Exception",
     Exception |-> "BaseException"]

\* isinstance(exc, cls), as an except clause tests it.
RECURSIVE IsInstance(_, _)
IsInstance(exc, cls) ==
    \/ exc = cls
    \/ (exc \in DOMAIN Bases /\ IsInstance(Bases[exc], cls))

\* What get("config") can return: a mapping that may lack 'devicename' or 'id'.
FullConfigs == {[devicename |-> n, id |-> i] : n \in DeviceNames, i \in DeviceIds}
Configs ==
    { [k \in D |-> c[k]] : c \in FullConfigs, D \in SUBSET {"devicename", "id"} }

NoConfig == [k \in {} |-> ""]
NoErrors == [k \in {} |-> ""]
NoInfo == [title |-> None, id |-> None]

\* The FlowResults of the framework.
AsyncShowForm(step_id, errors) ==
    [type |-> "form", step_id |-> step_id, errors |-> errors]
AsyncCreateEntry(title, input) ==
    [type |-> "create_entry", title |-> title, data |-> input]
AbortFlow(reason) ==
    [type |-> "abort", reason |-> reason]
NoResult == [type |-> "none"]

\* _abort_if_unique_id_configured: an entry with this unique id exists.
UniqueIdConfigured(uid) ==
    \E i \in 1..Len(entries) : entries[i].unique_id = uid

-----------------------------------------------------------------------------
(* Configuration flow: validate_input and the except clauses *)

\* Variant: the result of authenticate() is ignored.
AuthMutant_NeverRaise(authenticated) == FALSE
\* if not await hub.authenticate(): raise InvalidAuth
RaisesInvalidAuth(authenticated) == ~authenticated

\* Variant: the title is the bare device name.
TitleMutant_NoPrefix(c) == c["devicename"]
\* f"Air-Q {config['devicename']}"
Title(c) == "Air-Q " \o c["devicename"]

\* return {"title": ..., "id": config["id"]}; a missing key raises KeyError.
DeriveInfo(c) ==
    IF "devicename" \notin DOMAIN c \/ "id" \notin DOMAIN c
    THEN [raised |-> "KeyError", info |-> NoInfo]
    ELSE [raised |-> None, info |-> [title |-> Title(c), id |-> c["id"]]]

\* Variant: the last clause is `except HomeAssistantError`.
HandlerMutant_OnlyHomeAssistantError(exc) == IsInstance(exc, "HomeAssistantError")
\* Some except clause of async_step_user matches exc.
Caught(exc) ==
    \/ IsInstance(exc, "CannotConnect")
    \/ IsInstance(exc, "InvalidAuth")
    \/ IsInstance(exc, "Exception")

\* Variant: no `except InvalidAuth` clause.
ErrorMutant_AuthAsUnknown(exc) ==
    IF IsInstance(exc, "CannotConnect") THEN "cannot_connect" ELSE "unknown"
\* except CannotConnect / except InvalidAuth / except Exception, in this order.
ErrorFor(exc) ==
    IF IsInstance(exc, "CannotConnect") THEN "cannot_connect"
    ELSE IF IsInstance(exc, "InvalidAuth") THEN "invalid_auth"
    ELSE "unknown"

\* validate_input raised exc: the except clause sets errors["base"] and the form
\* is shown again; an exception no clause catches leaves async_step_user.
HandleException(exc) ==
    /\ raised' = exc
    /\ IF Caught(exc)
       THEN /\ result' = AsyncShowForm("user", [base |-> ErrorFor(exc)])
            /\ pc' = "form"
       ELSE /\ result' = [type |-> "exception", exception |-> exc]
            /\ pc' = "raised"
    /\ UNCHANGED <<entries, user_input, unique_id, entries_before>>

\* Variant: the else clause without _abort_if_unique_id_configured().
ElseMutant_NoAbortCheck(info) ==
    /\ unique_id' = info.id
    /\ entries' = Append(entries, [unique_id |-> info.id, title |-> info.title,
                                   data |-> user_input])
    /\ result' = AsyncCreateEntry(info.title, user_input)
    /\ pc' = "create_entry"
\* The else clause: set the unique id, abort if it is configured, create the entry.
StepUserElse(info) ==
    /\ unique_id' = info.id
    /\ IF UniqueIdConfigured(info.id)
       THEN /\ result' = AbortFlow("already_configured")
            /\ pc' = "abort"
            /\ UNCHANGED entries
       ELSE /\ entries' = Append(entries, [unique_id |-> info.id,
                                           title |-> info.title,
                                           data |-> user_input])
            /\ result' = AsyncCreateEntry(info.title, user_input)
            /\ pc' = "create_entry"

-----------------------------------------------------------------------------
(* Configuration flow: actions *)

FlowInit ==
    /\ entries = <<>>
    /\ pc = "init"
    /\ user_input = NoInput
    /\ result = NoResult
    /\ unique_id = None
    /\ calls = <<>>
    /\ config = NoConfig
    /\ raised = None
    /\ derived = FALSE
    /\ entries_before = <<>>

\* async_step_user(None): the form is shown, nothing else happens.
StepUserNoInput ==
    /\ pc = "init"
    /\ result' = AsyncShowForm("user", NoErrors)
    /\ pc' = "form"
    /\ calls' = <<>>
    /\ config' = NoConfig
    /\ raised' = None
    /\ derived' = FALSE
    /\ entries_before' = entries
    /\ UNCHANGED <<entries, user_input, unique_id>>
    /\ UNCHANGED sensorVars

\* async_step_user(user_input), up to the await of hub.authenticate().
StepUserSubmit ==
    /\ pc = "form"
    /\ \E input \in UserInputs : user_input' = input
    /\ calls' = <<[call |-> "authenticate", ret |-> "pending"]>>
    /\ config' = NoConfig
    /\ raised' = None
    /\ derived' = FALSE
    /\ entries_before' = entries
    /\ pc' = "await_authenticate"
    /\ UNCHANGED <<entries, result, unique_id>>
    /\ UNCHANGED sensorVars

Returned(cs, ret) == [cs EXCEPT ![Len(cs)].ret = ret]

\* hub.authenticate() returns; on True, up to the await of hub.airq.get("config").
AuthenticateReturns ==
    /\ pc = "await_authenticate"
    /\ \E authenticated \in BOOLEAN :
         LET ret == IF authenticated THEN "True" ELSE "False" IN
         IF RaisesInvalidAuth(authenticated)
         THEN /\ calls' = Returned(calls, ret)
              /\ HandleException("InvalidAuth")
              /\ UNCHANGED <<config, derived>>
         ELSE /\ calls' = Append(Returned(calls, ret),
                                 [call |-> "get_config", ret |-> "pending"])
              /\ pc' = "await_get_config"
              /\ UNCHANGED <<entries, user_input, result, unique_id, config,
                             raised, derived, entries_before>>
    /\ UNCHANGED sensorVars

\* hub.authenticate() raises: the device cannot be reached.
AuthenticateRaises ==
    /\ pc = "await_authenticate"
    /\ \E exc \in ClientExceptions :
         /\ calls' = Returned(calls, "raise")
         /\ HandleException(exc)
    /\ UNCHANGED <<config, derived>>
    /\ UNCHANGED sensorVars

\* hub.airq.get("config") returns; line 70, then the except / else clauses.
GetConfigReturns ==
    /\ pc = "await_get_config"
    /\ \E c \in Configs :
         LET d == DeriveInfo(c) IN
         /\ calls' = Returned(calls, "config")
         /\ config' = c
         /\ derived' = TRUE
         /\ IF d.raised # None
            THEN HandleException(d.raised)
            ELSE /\ StepUserElse(d.info)
                 /\ UNCHANGED <<user_input, raised, entries_before>>
    /\ UNCHANGED sensorVars

\* hub.airq.get("config") raises: the device cannot be reached.
GetConfigRaises ==
    /\ pc = "await_get_config"
    /\ \E exc \in ClientExceptions :
         /\ calls' = Returned(calls, "raise")
         /\ HandleException(exc)
    /\ UNCHANGED <<config, derived>>
    /\ UNCHANGED sensorVars

\* The flow has ended; the framework starts a new flow (a new ConfigFlow object).
NewFlow ==
    /\ pc \in {"create_entry", "abort", "raised"}
    /\ pc' = "init"
    /\ user_input' = NoInput
    /\ result' = NoResult
    /\ unique_id' = None
    /\ calls' = <<>>
    /\ config' = NoConfig
    /\ raised' = None
    /\ derived' = FALSE
    /\ entries_before' = entries
    /\ UNCHANGED entries
    /\ UNCHANGED sensorVars

Next ==
    \/ StepUserNoInput
    \/ StepUserSubmit
    \/ AuthenticateReturns
    \/ AuthenticateRaises
    \/ GetConfigReturns
    \/ GetConfigRaises
    \/ NewFlow

\* The sensor platform before any coordinator exists (the flow's specification
\* leaves it there).
SensorIdle ==
    /\ data = [k \in {} |-> 0]
    /\ status = [kind |-> "absent", items |-> [k \in {} |-> <<>>]]
    /\ device_id = None
    /\ entities = <<>>
    /\ setup = "pending"
    /\ op = "none"
    /\ last_read = [entity |-> 0, value |-> [kind |-> "None", num |-> 0, den |-> 1]]
    /\ updates = 0
    /\ reads = 0

Init == FlowInit /\ SensorIdle

Spec == Init /\ [][Next]_vars

-----------------------------------------------------------------------------
(* Configuration flow: properties *)

\* async_step_user has shown the "user" form with exactly errors["base"] == code.
FormShownWith(code) ==
    /\ pc = "form"
    /\ result.type = "form"
    /\ result.step_id = "user"
    /\ DOMAIN result.errors = {"base"}
    /\ result.errors["base"] = code

CalledGetConfig == \E i \in 1..Len(calls) : calls[i].call = "get_config"

\* The last device call of this submission failed with a connection failure.
ConnectionFailed ==
    /\ calls # <<>>
    /\ calls[Len(calls)].ret = "raise"

\* C1: when the device cannot be reached (authenticate or get("config") fails
\* with a connection failure), the form is shown again with errors["base"] ==
\* "cannot_connect". The code never raises CannotConnect, so this is violated.
C1_CannotConnectShown ==
    ConnectionFailed => FormShownWith("cannot_connect")

\* C2: when authenticate() returned false, the "user" form is shown again with
\* errors["base"] == "invalid_auth", the device config was never fetched, no
\* unique id is set and no config entry was created.
C2_InvalidAuthShown ==
    (calls # <<>> /\ calls[1].ret = "False") =>
        /\ FormShownWith("invalid_auth")
        /\ ~CalledGetConfig
        /\ config = NoConfig
        /\ unique_id = None
        /\ entries = entries_before

C2_Witness ==
    /\ pc = "form"
    /\ calls = <<[call |-> "authenticate", ret |-> "False"]>>
    /\ entries # <<>>

\* C3: an exception raised inside validate_input that is neither CannotConnect
\* nor InvalidAuth (a client exception, or the KeyError of a config that lacks
\* 'devicename' or 'id') does not leave async_step_user: the "user" form is
\* shown again with errors["base"] == "unknown" and no config entry is created.
C3_UnknownSwallowed ==
    /\ pc # "raised"
    /\ result.type # "exception"
    /\ (raised \notin ({None} \cup FlowExceptions)) =>
           /\ FormShownWith("unknown")
           /\ unique_id = None
           /\ entries = entries_before

C3_Witness ==
    /\ raised = "KeyError"
    /\ DOMAIN config = {"devicename"}
    /\ FormShownWith("unknown")
    /\ entries # <<>>

\* validate_input returned: authenticate() gave true and get("config") gave a
\* mapping with 'devicename' and 'id'.
ValidationSucceeded ==
    /\ Len(calls) = 2
    /\ calls[1] = [call |-> "authenticate", ret |-> "True"]
    /\ calls[2] = [call |-> "get_config", ret |-> "config"]
    /\ {"devicename", "id"} \subseteq DOMAIN config

ConfiguredBefore(id) ==
    \E i \in 1..Len(entries_before) : entries_before[i].unique_id = id

\* C4: when validation succeeds and the device is not yet configured, exactly
\* one config entry is created: its title is "Air-Q " followed by the device
\* name, its unique id is the config's id, its data is the submitted input.
C4_EntryCreated ==
    (ValidationSucceeded /\ ~ConfiguredBefore(config["id"])) =>
        /\ pc = "create_entry"
        /\ result = [type |-> "create_entry",
                     title |-> "Air-Q " \o config["devicename"],
                     data |-> user_input]
        /\ user_input \in UserInputs
        /\ unique_id = config["id"]
        /\ entries = Append(entries_before,
                            [unique_id |-> config["id"],
                             title |-> "Air-Q " \o config["devicename"],
                             data |-> user_input])

C4_Witness ==
    /\ pc = "create_entry"
    /\ Len(entries) = 2
    /\ entries[2].title = "Air-Q office"
    /\ entries[1].data # entries[2].data

\* The shape of the device calls of one call of async_step_user.
C5_CallShape ==
    \* no user input: no device call
    /\ (pc = "form" /\ result.errors = NoErrors) => calls = <<>>
    \* a submission: authenticate() exactly once, first
    /\ (pc \in {"await_authenticate", "await_get_config", "create_entry", "abort"}
        \/ (pc = "form" /\ result.errors # NoErrors)) =>
           /\ Len(calls) \in {1, 2}
           /\ calls[1].call = "authenticate"
    \* get("config") at most once, and only after authenticate() returned true
    /\ Len(calls) <= 2
    /\ Len(calls) = 2 => /\ calls[1].ret = "True"
                         /\ calls[2].call = "get_config"
    \* title / unique id only after get("config") returned
    /\ derived => (Len(calls) = 2 /\ calls[2].ret = "config")
    /\ (unique_id # None \/ pc \in {"create_entry", "abort"}) => derived
    \* back at the form, no call is in flight
    /\ pc = "form" => \A i \in 1..Len(calls) : calls[i].ret # "pending"
    /\ pc = "await_authenticate" <=>
           calls = <<[call |-> "authenticate", ret |-> "pending"]>>
    /\ pc = "await_get_config" <=>
           (Len(calls) = 2 /\ calls[2].ret = "pending")

\* The steps: at the form only a new submission makes a device call, and it
\* starts with authenticate(); within a submission calls are only added, and a
\* call that has returned is not made again.
C5_Step ==
    /\ (pc = "form" /\ calls' # calls) =>
           /\ user_input' \in UserInputs
           /\ calls' = <<[call |-> "authenticate", ret |-> "pending"]>>
    /\ (pc \in {"await_authenticate", "await_get_config"}) =>
           /\ Len(calls') >= Len(calls)
           /\ \A i \in 1..Len(calls) :
                /\ calls'[i].call = calls[i].call
                /\ calls[i].ret # "pending" => calls'[i] = calls[i]
    /\ (pc \in {"await_authenticate", "await_get_config"} /\ pc' = "form") =>
           /\ Len(calls') = Len(calls)
           /\ result'.errors # NoErrors

\* C5: each submission runs the validation sequence at most once, without
\* retry: authenticate() exactly once, get("config") at most once and only
\* after authenticate() returned true, title / unique id only after
\* get("config") returned; after a failure no device call is made until the
\* next submission; a call without user input makes no device call.
C5_LinearNoRetry == []C5_CallShape /\ [][C5_Step]_vars

C5_Witness ==
    /\ pc = "form"
    /\ Len(calls) = 2
    /\ calls[2].ret = "raise"
    /\ entries # <<>>

\* C10: at most one config entry exists per device id; a successful validation
\* for a configured device sets the unique id, aborts and creates no entry; a
\* failed submission leaves the config entries unchanged.
C10_OneEntryPerDevice ==
    /\ \A i, j \in 1..Len(entries) :
          entries[i].unique_id = entries[j].unique_id => i = j
    /\ (ValidationSucceeded /\ ConfiguredBefore(config["id"])) =>
          /\ pc = "abort"
          /\ result.type = "abort"
          /\ unique_id = config["id"]
          /\ entries = entries_before
    /\ pc = "form" => entries = entries_before

C10_Witness ==
    /\ pc = "abort"
    /\ Len(entries) = NumDevices
    /\ user_input # entries[1].data

-----------------------------------------------------------------------------
(* Sensor platform: the catalog *)

Plain(key) == [key |-> key, value_transform_fn |-> "identity"]
Index(key) == [key |-> key, value_transform_fn |-> "_index2percent"]

\* SENSOR_TYPES: the key and the value_transform_fn of each description, in order.
SENSOR_TYPES == <<
    Plain("nh3_MR100"), Plain("cl2_M20"), Plain("co"), Plain("co2"),
    Plain("dewpt"), Plain("ethanol"), Plain("ch2o_M10"), Plain("h2s"),
    Index("health"), Plain("humidity"), Plain("humidity_abs"), Plain("h2_M1000"),
    Plain("ch4_MIPEX"), Plain("n2o"), Plain("no_M250"), Plain("no2"),
    Plain("o3"), Plain("oxygen"), Index("performance"), Plain("pm1"),
    Plain("pm2_5"), Plain("pm10"), Plain("pressure"), Plain("pressure_rel"),
    Plain("c3h8_MIPEX"), Plain("so2"), Plain("sound"), Plain("sound_max"),
    Plain("radon"), Plain("temperature"), Plain("tvoc"), Plain("tvoc_ionsc") >>

CatalogKeys == {SENSOR_TYPES[i].key : i \in 1..Len(SENSOR_TYPES)}

-----------------------------------------------------------------------------
(* Sensor platform: the device responses the model draws from *)

\* The sensor keys a response of the modelled device may hold, in the order the
\* response lists them; "Status" comes last.
SampleKeys == <<"co2", "health", "performance">>
SampleKeySet == {SampleKeys[i] : i \in 1..Len(SampleKeys)}
RawValues == {0, 25}

\* The device ids of the coordinator the platform is set up for.
CoordinatorDeviceIds == {AllDeviceIds[1], AllDeviceIds[2]}

\* Status strings, as sequences of words.
WarmUpMsg(k) ==
    <<k, "sensor", "still", "in", "warm", "up", "phase", ";", "waiting", "time">>
OtherMsg(k) == <<k, "sensor", "still", "in", "calibration">>
MessagesFor(k) == IF k = "co2" THEN {WarmUpMsg(k), OtherMsg(k)} ELSE {WarmUpMsg(k)}

NoItems == [k \in {} |-> <<>>]
DataMaps == UNION { [D -> RawValues] : D \in SUBSET SampleKeySet }
Statuses ==
    {[kind |-> "absent", items |-> NoItems], [kind |-> "str", items |-> NoItems]}
    \cup UNION { {[kind |-> "dict", items |-> f] :
                    f \in {g \in [D -> UNION {MessagesFor(k) : k \in D}] :
                             \A k \in D : g[k] \in MessagesFor(k)}} :
                 D \in SUBSET SampleKeySet }

-----------------------------------------------------------------------------
(* Sensor platform: helpers *)

InList(x, list) == \E i \in 1..Len(list) : list[i] = x

\* needle in hay, for strings as sequences of words.
Contains(needle, hay) ==
    \E i \in 0..(Len(hay) - Len(needle)) :
        \A j \in 1..Len(needle) : hay[i + j] = needle[j]

WarmUpPhrase == <<"sensor", "still", "in", "warm", "up", "phase">>

\* list(coordinator.data.keys())
DataKeys ==
    SelectSeq(SampleKeys, LAMBDA k : k \in DOMAIN data)
    \o (IF status.kind = "absent" THEN <<>> ELSE <<"Status">>)

\* [k for k, v in status.items() if "sensor still in warm up phase" in v]
\* Variant: every key of status counts as warming up.
WarmingMutant_AllStatusKeys ==
    SelectSeq(SampleKeys, LAMBDA k : k \in DOMAIN status.items)
WarmingUpSensors ==
    SelectSeq(SampleKeys, LAMBDA k : /\ k \in DOMAIN status.items
                                     /\ Contains(WarmUpPhrase, status.items[k]))

\* available_keys after the extend: the keys of the response, then the keys warming up.
AvailableKeys ==
    DataKeys \o (IF status.kind = "dict" THEN WarmingUpSensors ELSE <<>>)

\* Variant: the filter goes through available_keys, not through SENSOR_TYPES.
FilterMutant_PerAvailableKey(available_keys) ==
    LET Hits(k) == SelectSeq(SENSOR_TYPES, LAMBDA d : d.key = k)
        F[i \in 0..Len(available_keys)] ==
            IF i = 0 THEN <<>> ELSE F[i - 1] \o Hits(available_keys[i])
    IN  F[Len(available_keys)]
\* [description for description in SENSOR_TYPES if description.key in available_keys]
AvailableSensors(available_keys) ==
    SelectSeq(SENSOR_TYPES, LAMBDA d : InList(d.key, available_keys))

\* AirQSensor(coordinator, description)
AirQSensor(description) ==
    [entity_description |-> description,
     unique_id |-> device_id \o "_" \o description.key]

\* Values: a number num/den, Python's None, or a TypeError raised.
Number(n, d) == [kind |-> "number", num |-> n, den |-> d]
NoneValue == [kind |-> "None", num |-> 0, den |-> 1]
TypeError == [kind |-> "TypeError", num |-> 0, den |-> 1]

\* coordinator.data.get(key)
DataGet(key) == IF key \in DOMAIN data THEN Number(data[key], 1) ELSE NoneValue

\* Variant: the index is passed through.
Index2PercentMutant_Identity(index_value) == index_value
\* index_value / 10.0; None / 10.0 raises TypeError.
Index2Percent(index_value) ==
    IF index_value.kind = "number"
    THEN Number(index_value.num, index_value.den * 10)
    ELSE TypeError

\* description.value_transform_fn(value)
ValueTransform(description, value) ==
    IF description.value_transform_fn = "_index2percent"
    THEN Index2Percent(value)
    ELSE value

\* AirQSensor.native_value
NativeValue(entity) ==
    ValueTransform(entity.entity_description, DataGet(entity.entity_description.key))

NoRead == [entity |-> 0, value |-> NoneValue]

-----------------------------------------------------------------------------
(* Sensor platform: actions *)

FlowIdle ==
    /\ entries = <<>>
    /\ pc = "init"
    /\ user_input = NoInput
    /\ result = NoResult
    /\ unique_id = None
    /\ calls = <<>>
    /\ config = NoConfig
    /\ raised = None
    /\ derived = FALSE
    /\ entries_before = <<>>

\* The coordinator has made its first refresh; the platform is not set up yet.
SensorInit ==
    /\ data \in DataMaps
    /\ status \in Statuses
    /\ device_id \in CoordinatorDeviceIds
    /\ entities = <<>>
    /\ setup = "pending"
    /\ op = "none"
    /\ last_read = NoRead
    /\ updates = 0
    /\ reads = 0
    /\ FlowIdle

\* async_setup_entry; coordinator.data["Status"] raises KeyError without the key.
AsyncSetupEntry ==
    /\ setup = "pending"
    /\ IF status.kind = "absent"
       THEN /\ setup' = "KeyError"
            /\ UNCHANGED entities
       ELSE LET available_sensors == AvailableSensors(AvailableKeys) IN
            /\ entities' = [i \in 1..Len(available_sensors) |->
                               AirQSensor(available_sensors[i])]
            /\ setup' = "done"
    /\ op' = "setup"
    /\ UNCHANGED <<data, status, device_id, last_read, updates, reads>>
    /\ UNCHANGED flowVars

\* The state machine reads the native_value of one entity.
ReadNativeValue ==
    /\ setup = "done"
    /\ reads < MaxReads
    /\ reads' = reads + 1
    /\ \E i \in 1..Len(entities) :
         last_read' = [entity |-> i, value |-> NativeValue(entities[i])]
    /\ op' = "read"
    /\ UNCHANGED <<data, status, device_id, entities, setup, updates>>
    /\ UNCHANGED flowVars

\* The coordinator polls the device again and replaces its data.
CoordinatorUpdate ==
    /\ setup = "done"
    /\ updates < MaxUpdates
    /\ data' \in DataMaps
    /\ status' \in Statuses
    /\ updates' = updates + 1
    /\ op' = "update"
    /\ last_read' = NoRead
    /\ reads' = 0
    /\ UNCHANGED <<device_id, entities, setup>>
    /\ UNCHANGED flowVars

SensorNext ==
    \/ AsyncSetupEntry
    \/ ReadNativeValue
    \/ CoordinatorUpdate

SensorSpec == SensorInit /\ [][SensorNext]_vars

-----------------------------------------------------------------------------
(* Sensor platform: properties *)

HasEntity(key) ==
    \E j \in 1..Len(entities) : entities[j].entity_description.key = key

\* The response lists key under "Status" with a value that contains the phrase.
ListedWarmingUp(key) ==
    /\ status.kind = "dict"
    /\ key \in DOMAIN status.items
    /\ \E i \in 1..(Len(status.items[key]) - Len(WarmUpPhrase) + 1) :
          SubSeq(status.items[key], i, i + Len(WarmUpPhrase) - 1) = WarmUpPhrase

CatalogIndex(key) == CHOOSE i \in 1..Len(SENSOR_TYPES) : SENSOR_TYPES[i].key = key

\* C6: for a response with a "Status" key, async_setup_entry creates an entity
\* for a catalog description iff its key is a key of the response or is listed
\* as warming up in a mapping-valued "Status"; keys outside the catalog (such
\* as "Status") give no entity.
C6_EntityIffAvailable ==
    (op = "setup" /\ status.kind # "absent") =>
        /\ setup = "done"
        /\ \A i \in 1..Len(SENSOR_TYPES) :
              HasEntity(SENSOR_TYPES[i].key) <=>
                  \/ SENSOR_TYPES[i].key \in DOMAIN data
                  \/ ListedWarmingUp(SENSOR_TYPES[i].key)
        /\ \A j \in 1..Len(entities) :
              /\ entities[j].entity_description.key \in CatalogKeys
              /\ entities[j].entity_description.key # "Status"

C6_Witness ==
    /\ op = "setup"
    /\ DOMAIN data = {"performance"}
    /\ status.kind = "dict"
    /\ DOMAIN status.items = {"co2", "health"}
    /\ status.items["co2"] = OtherMsg("co2")
    /\ HasEntity("health")
    /\ HasEntity("performance")
    /\ ~HasEntity("co2")

LastReadKey == entities[last_read.entity].entity_description.key

\* C7: a catalog field listed as warming up and absent from the response still
\* gets an entity, and reading its native_value gives None without an error,
\* for every catalog entry. The code raises TypeError for "health" and
\* "performance", so this is violated.
C7_WarmUpReadsNone ==
    /\ (op = "setup" /\ status.kind = "dict") =>
          \A i \in 1..Len(SENSOR_TYPES) :
              ListedWarmingUp(SENSOR_TYPES[i].key) => HasEntity(SENSOR_TYPES[i].key)
    /\ (op = "read" /\ ListedWarmingUp(LastReadKey) /\ LastReadKey \notin DOMAIN data) =>
          last_read.value.kind = "None"

TransformKeys == {"health", "performance"}

\* What the last read gave is the transform applied once to the raw value held.
C8_ReadValue ==
    op = "read" =>
        LET key == LastReadKey
            v == last_read.value
        IN  /\ (key \in TransformKeys /\ key \in DOMAIN data) =>
                  /\ v.kind = "number"
                  /\ v.num * 10 = data[key] * v.den
            /\ (key \notin TransformKeys /\ key \in DOMAIN data) =>
                  /\ v.kind = "number"
                  /\ v.num = data[key] * v.den
            /\ (key \notin TransformKeys /\ key \notin DOMAIN data) =>
                  v.kind = "None"

\* A read leaves the coordinator data alone, and reading the same entity again
\* without a refresh gives the same value.
C8_Step ==
    /\ op' = "read" => (data' = data /\ status' = status)
    /\ (op = "read" /\ op' = "read" /\ last_read'.entity = last_read.entity) =>
           last_read'.value = last_read.value

\* C8: each read of native_value applies the description's transform exactly
\* once to the raw value the coordinator holds under the key: raw / 10 for
\* "health" and "performance", the raw value for every other entry; repeated
\* reads without a refresh give the same value and leave the data unmodified.
C8_TransformOnce == []C8_ReadValue /\ [][C8_Step]_vars

C8_Witness ==
    /\ op = "read"
    /\ reads = 2
    /\ LastReadKey = "health"
    /\ "health" \in DOMAIN data
    /\ data["health"] = 25
    /\ last_read.value = [kind |-> "number", num |-> 25, den |-> 10]

\* C9: at most one entity per catalog description, in catalog order, also when
\* a key is both in the response and listed as warming up; the unique ids
\* "<device_id>_<key>" are pairwise distinct.
C9_OneEntityPerDescription ==
    /\ \A i, j \in 1..Len(entities) :
          i < j => /\ CatalogIndex(entities[i].entity_description.key)
                        < CatalogIndex(entities[j].entity_description.key)
                   /\ entities[i].unique_id # entities[j].unique_id
    /\ \A i \in 1..Len(entities) :
          /\ entities[i].entity_description.key \in CatalogKeys
          /\ entities[i].unique_id
                = device_id \o "_" \o entities[i].entity_description.key

C9_Witness ==
    /\ op = "setup"
    /\ "co2" \in DOMAIN data
    /\ ListedWarmingUp("co2")
    /\ ListedWarmingUp("health")
    /\ Len(entities) = 2

====
